---------------------------- MODULE Spec2Model ----------------------------
(***************************************************************************)
(* Model of rust_ed (src/src/lib.rs): Slater determinants as u64 bit       *)
(* masks, creation/annihilation operators with their fermionic sign, and   *)
(* State::apply, which threads an Operator through a sparse superposition. *)
(*                                                                         *)
(* A u64 word is modelled as the set of its set bit positions, a subset of *)
(* 0..WordBits-1, so that all 64 bits are kept: & is intersection, | is    *)
(* union, ! is the complement in 0..WordBits-1, count_ones is the          *)
(* cardinality, and + and - are carried out with their carry and borrow.   *)
(*                                                                         *)
(* An f64 amplitude is modelled as an integer number of quanta, one        *)
(* quantum being f64::EPSILON (Eps == 1).  Small integer multiples of      *)
(* f64::EPSILON and their sums and products with small integer weights are *)
(* exact in f64, so the integer arithmetic is the arithmetic of the code   *)
(* on these values.                                                        *)
(***************************************************************************)
EXTENDS Integers, Sequences, FiniteSets

VARIABLES
    pc,       \* "start": nothing constructed yet; "slater", "state": the
              \* caller holds a Slater, a State; "failed": from_vec failed
    input,    \* the argument of the constructor call about to be made
    made,     \* the constructor call made last, with what it returned
    slater,   \* the Slater value the caller holds (a word)
    hist,     \* the Slater::apply calls made on it, oldest first
    state,    \* the State the caller holds (determinant -> amplitude)
    applied,  \* the last State::apply call, with what it returned
    chain     \* the number of State::apply calls made so far

vars == <<pc, input, made, slater, hist, state, applied, chain>>

---------------------------------------------------------------------------
(* Bounds of the exploration. *)

\* positions 0..NLow-1 are explored at the low end of the word
NLow == 3
\* positions WordBits-NHigh..WordBits-1 are explored at the high end
NHigh == 2
\* longest list handed to Slater::from_vec
MaxVecLen == 3
\* most Slater::apply calls in a row
MaxApplies == 2

\* width of Slater.index
WordBits == 64

AllBits == 0 .. (WordBits - 1)

Positions == (0 .. (NLow - 1)) \cup ((WordBits - NHigh) .. (WordBits - 1))

Dets == SUBSET Positions

SeqsUpTo(S, n) == UNION {[1..k -> S] : k \in 0..n}

---------------------------------------------------------------------------
(* u64 arithmetic on words. *)

\* 1 << j, for a position j in range (0 <= j < WordBits), the only positions
\* the callers below hand in: the shift itself never overflows
Shl1(j) == {j}

BitAnd(a, b) == a \cap b

BitOr(a, b) == a \cup b

BitNot(a) == AllBits \ a

CountOnes(a) == Cardinality(a)

MinBit(a) == CHOOSE m \in a : \A k \in a : m <= k

\* w - 1 for a non-zero word w: the lowest set bit is cleared and the bits
\* below it are set by the borrow
SubOne(w) == (w \ {MinBit(w)}) \cup (0 .. (MinBit(w) - 1))

\* the positions i..WordBits-1 a carry entering at i runs through
CarryRun(a, i) == {k \in i .. (WordBits - 1) : \A m \in i..k : m \in a}

\* index = 1 << i in place of index += 1 << i
AddShl1Assign(a, i) ==
    [overflow |-> FALSE, value |-> Shl1(i)]

\* a + (1 << i): the carry entering at position i ripples through the run of
\* set bits above it; it leaves the word (overflow) when the run reaches the
\* top bit, and the wrapped sum then has the run cleared
AddShl1(a, i) ==
    LET run == CarryRun(a, i)
        top == i + Cardinality(run)
    IN  IF top > WordBits - 1
        THEN [overflow |-> TRUE, value |-> a \ run]
        ELSE [overflow |-> FALSE, value |-> (a \ run) \cup {top}]

\* the word of a small literal n
Word(n) == {i \in 0..30 : (n \div (2 ^ i)) % 2 = 1}

---------------------------------------------------------------------------
(* enum AC *)

Create(j) == [kind |-> "Create", pos |-> j]

Annihilate(j) == [kind |-> "Annihilate", pos |-> j]

ACs == {Create(j) : j \in Positions} \cup {Annihilate(j) : j \in Positions}

---------------------------------------------------------------------------
(* impl Slater *)

None == [some |-> FALSE, sign |-> 0, d |-> {}]

Some(sign, d) == [some |-> TRUE, sign |-> sign, d |-> d]

\* Vec::binary_search on the sorted vector v: found, or the insertion point
BinarySearch(v, x) ==
    IF \E p \in 1..Len(v) : v[p] = x
    THEN [found |-> TRUE, pos |-> 0]
    ELSE [found |-> FALSE, pos |-> Cardinality({p \in 1..Len(v) : v[p] < x})]

\* Vec::insert(pos, x), pos counted from 0
Insert(v, pos, x) ==
    SubSeq(v, 1, pos) \o <<x>> \o SubSeq(v, pos + 1, Len(v))

Ok(index) == [kind |-> "Ok", index |-> index]

Err == [kind |-> "Err", index |-> {}]

Panic == [kind |-> "Panic", index |-> {}]

\* the loop of Slater::from_vec from element k on; overflowChecks is the
\* build's overflow-checks setting (on in a debug build, off in a release
\* build): with it an overflowing += panics, without it the sum wraps
RECURSIVE FromVecLoop(_, _, _, _, _)
FromVecLoop(arr, k, index, added, overflowChecks) ==
    IF k > Len(arr)
    THEN Ok(index)
    ELSE LET sum == AddShl1(index, arr[k])
             found == BinarySearch(added, arr[k])
         IN  IF sum.overflow /\ overflowChecks
             THEN Panic
             ELSE IF found.found
                  THEN Err
                  ELSE FromVecLoop(arr, k + 1, sum.value,
                                   Insert(added, found.pos, arr[k]),
                                   overflowChecks)

FromVec(arr, overflowChecks) == FromVecLoop(arr, 1, {}, <<>>, overflowChecks)

SlaterCreate(d, j) ==
    IF BitAnd(d, Shl1(j)) = {}
    THEN Some(0, BitOr(d, Shl1(j)))
    ELSE None

SlaterAnnihilate(d, j) ==
    IF BitAnd(d, Shl1(j)) = {}
    THEN None
    ELSE Some(0, BitAnd(d, BitNot(Shl1(j))))

\* the parity of the occupied bits below pos in place of the unoccupied ones
CreateSignOccupied(d, pos) ==
    IF CountOnes(BitAnd(d, SubOne(Shl1(pos)))) % 2 = 0 THEN 1 ELSE -1

\* the parity test of the Create arm of Slater::apply
CreateSign(d, pos) ==
    IF CountOnes(BitAnd(BitNot(d), SubOne(Shl1(pos)))) % 2 = 0 THEN 1 ELSE -1

\* no parity test at all
AnnihilateSignPlus(d, pos) == 1

\* the parity test of the Annihilate arm of Slater::apply
AnnihilateSign(d, pos) ==
    IF CountOnes(BitAnd(d, SubOne(Shl1(pos)))) % 2 = 0 THEN 1 ELSE -1

SlaterApply(d, op) ==
    IF op.kind = "Create"
    THEN LET new_state == SlaterCreate(d, op.pos)
         IN  IF new_state.some
             THEN Some(CreateSign(d, op.pos), new_state.d)
             ELSE None
    ELSE LET new_state == SlaterAnnihilate(d, op.pos)
         IN  IF new_state.some
             THEN Some(AnnihilateSign(d, op.pos), new_state.d)
             ELSE None

---------------------------------------------------------------------------
(* Bounds of the exploration of State. *)

\* single-particle states 0..NSites-1 the explored States and Operators use
NSites == 2
\* longest list handed to State::new
MaxPairs == 2
\* most terms of an Operator
MaxTerms == 2
\* longest term of an Operator of several terms
MaxSumLen == 1
\* longest term of an Operator of one term
MaxTermLen == 2
\* most State::apply calls in a row
MaxChain == 2

Sites == 0 .. (NSites - 1)

SiteDets == SUBSET Sites

SiteACs == {Create(j) : j \in Sites} \cup {Annihilate(j) : j \in Sites}

\* f64::EPSILON, in quanta
Eps == 1

\* the amplitudes handed to State::new: the tolerance itself and an amplitude
\* above it, and zero as well where Operators of several terms are explored
InputAmps == {1, 2}

SumInputAmps == InputAmps \cup {0}

\* the weights of the explored terms
Weights == {-1, 1, 2}

\* the amplitude 0.33 of the fixtures.  0.33 is about 1.5e15 quanta; the
\* fixtures only multiply it by +1 or -1 and add it to 0, which is exact in
\* f64 as it is here, so any amplitude above the tolerance stands for it
Amp033 == 33

Abs(x) == IF x < 0 THEN -x ELSE x

---------------------------------------------------------------------------
(* HashMap<Slater, f64> as a function from words to amplitudes *)

EmptyMap == [k \in {} |-> 0]

\* *m.entry(k).or_insert(0) += x
AddEntry(m, k, x) ==
    [kk \in DOMAIN m \cup {k} |->
        (IF kk \in DOMAIN m THEN m[kk] ELSE 0) + (IF kk = k THEN x ELSE 0)]

\* m.insert(k, x)
InsertEntry(m, k, x) ==
    [kk \in DOMAIN m \cup {k} |-> IF kk = k THEN x ELSE m[kk]]

\* m.retain(|_, amp| amp.abs() > f64::EPSILON)
Retain(m) ==
    [k \in {kk \in DOMAIN m : Abs(m[kk]) > Eps} |-> m[k]]

Term(fac, ac) == [fac |-> fac, ac |-> ac]

\* ac.reverse()
Reverse(ac) == [i \in 1..Len(ac) |-> ac[Len(ac) + 1 - i]]

---------------------------------------------------------------------------
(* impl State *)
(* A HashMap is iterated in an arbitrary order.  The loops below visit the *)
(* entries in the order CHOOSE fixes; what they compute does not depend on *)
(* it: a thread is left as soon as any entry is null, and the amplitudes   *)
(* are summed exactly.                                                     *)

\* states.into_iter().collect(): the pairs are inserted in order, a later
\* pair replacing an earlier one of the same Slater
RECURSIVE Collect(_, _, _)
Collect(states, k, m) ==
    IF k > Len(states)
    THEN m
    ELSE Collect(states, k + 1, InsertEntry(m, states[k].d, states[k].amp))

StateNew(states) == Collect(states, 1, EmptyMap)

\* for (s, v) in &tmp_states { ... } of State::apply over the entries todo
\* still to visit: ok is FALSE when an entry took the else branch
\* (next_states.clear(); continue 'states)
RECURSIVE StepLoop(_, _, _, _)
StepLoop(tmp_states, todo, c, next_states) ==
    IF todo = {}
    THEN [ok |-> TRUE, next |-> next_states]
    ELSE LET s == CHOOSE x \in todo : TRUE
             r == SlaterApply(s, c)
         IN  IF r.some
             THEN StepLoop(tmp_states, todo \ {s}, c,
                           AddEntry(next_states, r.d, tmp_states[s] * r.sign))
             ELSE [ok |-> FALSE, next |-> EmptyMap]

\* for c in &ac { ... } from element k on, ac being the reversed term
RECURSIVE OpsLoop(_, _, _)
OpsLoop(ac, k, tmp_states) ==
    IF k > Len(ac)
    THEN [ok |-> TRUE, tmp |-> tmp_states]
    ELSE LET step == StepLoop(tmp_states, DOMAIN tmp_states, ac[k], EmptyMap)
         IN  IF step.ok
             THEN OpsLoop(ac, k + 1, Retain(step.next))
             ELSE [ok |-> FALSE, tmp |-> EmptyMap]

\* for (s, v) in &tmp_states { *res.entry(*s).or_insert(0) += fac*v }
RECURSIVE Accumulate(_, _, _, _)
Accumulate(res, fac, tmp_states, todo) ==
    IF todo = {}
    THEN res
    ELSE LET s == CHOOSE x \in todo : TRUE
         IN  Accumulate(AddEntry(res, s, fac * tmp_states[s]), fac,
                        tmp_states, todo \ {s})

\* break 'states in place of continue 'states: the first source that fails
\* ends the term
RECURSIVE StatesLoopBreak(_, _, _, _, _)
StatesLoopBreak(res, fac, ac, amplitudes, todo) ==
    IF todo = {}
    THEN res
    ELSE LET st == CHOOSE x \in todo : TRUE
             thread == OpsLoop(ac, 1, InsertEntry(EmptyMap, st, amplitudes[st]))
         IN  IF thread.ok
             THEN StatesLoopBreak(
                      Accumulate(res, fac, thread.tmp, DOMAIN thread.tmp),
                      fac, ac, amplitudes, todo \ {st})
             ELSE res

\* 'states: for (state, amp) in &self.amplitudes { ... } over the sources
\* todo still to visit
RECURSIVE StatesLoop(_, _, _, _, _)
StatesLoop(res, fac, ac, amplitudes, todo) ==
    IF todo = {}
    THEN res
    ELSE LET st == CHOOSE x \in todo : TRUE
             thread == OpsLoop(ac, 1, InsertEntry(EmptyMap, st, amplitudes[st]))
         IN  StatesLoop(
                 IF thread.ok
                 THEN Accumulate(res, fac, thread.tmp, DOMAIN thread.tmp)
                 ELSE res,
                 fac, ac, amplitudes, todo \ {st})

\* for (fac, mut ac) in op.terms { ac.reverse(); ... } from term k on
RECURSIVE TermsLoop(_, _, _, _)
TermsLoop(res, terms, k, amplitudes) ==
    IF k > Len(terms)
    THEN res
    ELSE TermsLoop(StatesLoop(res, terms[k].fac, Reverse(terms[k].ac),
                              amplitudes, DOMAIN amplitudes),
                   terms, k + 1, amplitudes)

StateApply(amplitudes, terms) ==
    Retain(TermsLoop(EmptyMap, terms, 1, amplitudes))

---------------------------------------------------------------------------
(* The calls a caller makes. *)

NoInput ==
    [fn |-> "none", arr |-> <<>>, overflowChecks |-> FALSE, index |-> {},
     states |-> <<>>]

FromVecInput(arr, oc) ==
    [fn |-> "from_vec", arr |-> arr, overflowChecks |-> oc, index |-> {},
     states |-> <<>>]

NewInput(index) ==
    [fn |-> "new", arr |-> <<>>, overflowChecks |-> FALSE, index |-> index,
     states |-> <<>>]

StateNewInput(states) ==
    [fn |-> "State::new", arr |-> <<>>, overflowChecks |-> FALSE,
     index |-> {}, states |-> states]

NotMade == [call |-> NoInput, ret |-> Ok({})]

NotApplied ==
    [called |-> FALSE, in |-> EmptyMap, op |-> <<>>, out |-> EmptyMap]

Pairs == [d : SiteDets, amp : InputAmps]

SumPairs == [d : SiteDets, amp : SumInputAmps]

\* Operators of one term
TermOperators ==
    {<<Term(fac, ac)>> : fac \in Weights, ac \in SeqsUpTo(SiteACs, MaxTermLen)}

\* Operators of up to MaxTerms terms
SumOperators ==
    SeqsUpTo([fac : Weights, ac : SeqsUpTo(SiteACs, MaxSumLen)], MaxTerms)

\* Slater::new(index)
SlaterNewCall ==
    /\ pc = "start"
    /\ input.fn = "new"
    /\ pc' = "slater"
    /\ slater' = input.index
    /\ made' = [call |-> input, ret |-> Ok(input.index)]
    /\ input' = NoInput
    /\ UNCHANGED <<hist, state, applied, chain>>

\* Slater::from_vec(arr)
SlaterFromVecCall ==
    /\ pc = "start"
    /\ input.fn = "from_vec"
    /\ LET ret == FromVec(input.arr, input.overflowChecks)
       IN  /\ made' = [call |-> input, ret |-> ret]
           /\ pc' = IF ret.kind = "Ok" THEN "slater" ELSE "failed"
           /\ slater' = IF ret.kind = "Ok" THEN ret.index ELSE slater
    /\ input' = NoInput
    /\ UNCHANGED <<hist, state, applied, chain>>

\* slater.apply(&op); the caller goes on with the new Slater when there is one
SlaterApplyCall ==
    /\ pc = "slater"
    /\ Len(hist) < MaxApplies
    /\ \E op \in ACs :
          LET res == SlaterApply(slater, op)
          IN  /\ hist' = Append(hist, [d |-> slater, op |-> op, res |-> res])
              /\ slater' = IF res.some THEN res.d ELSE slater
    /\ made' = NotMade
    /\ UNCHANGED <<pc, input, state, applied, chain>>

\* State::new(states)
StateNewCall ==
    /\ pc = "start"
    /\ input.fn = "State::new"
    /\ pc' = "state"
    /\ state' = StateNew(input.states)
    /\ input' = NoInput
    /\ UNCHANGED <<made, slater, hist, applied, chain>>

\* state.apply(op), op an Operator of up to MaxTerms terms
StateApplySum ==
    /\ pc = "state"
    /\ chain < MaxChain
    /\ \E op \in SumOperators :
          LET out == StateApply(state, op)
          IN  /\ applied' = [called |-> TRUE, in |-> state, op |-> op,
                             out |-> out]
              /\ state' = out
    /\ chain' = chain + 1
    /\ UNCHANGED <<pc, input, made, slater, hist>>

\* state.apply(op), op an Operator of one term, called once
StateApplyTerm ==
    /\ pc = "state"
    /\ chain < 1
    /\ \E op \in TermOperators :
          LET out == StateApply(state, op)
          IN  /\ applied' = [called |-> TRUE, in |-> state, op |-> op,
                             out |-> out]
              /\ state' = out
    /\ chain' = chain + 1
    /\ UNCHANGED <<pc, input, made, slater, hist>>

\* the State of run() and of tests::test_apply_state
FixtureStates ==
    << [d |-> Word(7), amp |-> Amp033], [d |-> Word(2), amp |-> Amp033],
       [d |-> Word(14), amp |-> Amp033] >>

\* the Operator n1 of run()
RunOperator == <<Term(1, <<Create(1), Annihilate(1)>>)>>

\* the Operator a of tests::test_apply_state
TestOperator == <<Term(1, <<Create(0), Annihilate(1)>>)>>

\* run(): s = State::new(...), ns = s.apply(n1)
Run ==
    /\ pc = "start"
    /\ input = StateNewInput(<<>>)
    /\ LET s == StateNew(FixtureStates)
           ns == StateApply(s, RunOperator)
       IN  /\ applied' = [called |-> TRUE, in |-> s, op |-> RunOperator,
                          out |-> ns]
           /\ state' = ns
    /\ pc' = "state"
    /\ chain' = chain + 1
    /\ input' = NoInput
    /\ UNCHANGED <<made, slater, hist>>

\* tests::test_apply_state: s = State::new(...), ns = s.apply(a)
TestApplyState ==
    /\ pc = "start"
    /\ input = StateNewInput(<<>>)
    /\ LET s == StateNew(FixtureStates)
           ns == StateApply(s, TestOperator)
       IN  /\ applied' = [called |-> TRUE, in |-> s, op |-> TestOperator,
                          out |-> ns]
           /\ state' = ns
    /\ pc' = "state"
    /\ chain' = chain + 1
    /\ input' = NoInput
    /\ UNCHANGED <<made, slater, hist>>

---------------------------------------------------------------------------
(* Specifications. *)

InitCommon ==
    /\ pc = "start"
    /\ made = NotMade
    /\ slater = {}
    /\ hist = <<>>
    /\ state = EmptyMap
    /\ applied = NotApplied
    /\ chain = 0

\* a caller of Slater: a constructor call, then Slater::apply calls
InitSlater ==
    /\ InitCommon
    /\ input \in {FromVecInput(arr, oc) :
                     arr \in SeqsUpTo(Positions, MaxVecLen), oc \in BOOLEAN}
                 \cup {NewInput(index) : index \in Dets}

NextSlater ==
    \/ SlaterNewCall
    \/ SlaterFromVecCall
    \/ SlaterApplyCall

SpecSlater == InitSlater /\ [][NextSlater]_vars

\* a caller of State: State::new, then State::apply calls with Operators of
\* up to MaxTerms terms
InitState ==
    /\ InitCommon
    /\ input \in {StateNewInput(states) :
                     states \in SeqsUpTo(SumPairs, MaxPairs)}

Next ==
    \/ StateNewCall
    \/ StateApplySum

Spec == InitState /\ [][Next]_vars

\* a caller of State applying one Operator of one term, and the fixtures
InitTerm ==
    /\ InitCommon
    /\ input \in {StateNewInput(states) : states \in SeqsUpTo(Pairs, MaxPairs)}

NextTerm ==
    \/ StateNewCall
    \/ StateApplyTerm
    \/ Run
    \/ TestApplyState

SpecTerm == InitTerm /\ [][NextTerm]_vars

---------------------------------------------------------------------------
(* What the claims are stated with. *)

Range(seq) == {seq[k] : k \in 1..Len(seq)}

HasDuplicate(seq) == \E a, b \in 1..Len(seq) : a # b /\ seq[a] = seq[b]

Parity(n) == IF n % 2 = 0 THEN 1 ELSE -1

Entry(m, k) == IF k \in DOMAIN m THEN m[k] ELSE 0

Prune(m) == [k \in {kk \in DOMAIN m : Abs(m[kk]) > Eps} |-> m[k]]

Negate(m) == [k \in DOMAIN m |-> -m[k]]

Swap(ac, i) ==
    [k \in 1..Len(ac) |->
        IF k = i THEN ac[i + 1] ELSE IF k = i + 1 THEN ac[i] ELSE ac[k]]

\* the sum of f[x] over x in S
RECURSIVE SumOver(_, _)
SumOver(f, S) ==
    IF S = {}
    THEN 0
    ELSE LET x == CHOOSE y \in S : TRUE
         IN  f[x] + SumOver(f, S \ {x})

\* the chain ac[n], ac[n-1], ..., ac[1] of elementary operators applied to d
\* in that order: the final determinant with the product of the signs, or
\* None when a step is null
RECURSIVE Path(_, _, _)
Path(d, ac, n) ==
    IF n = 0
    THEN Some(1, d)
    ELSE LET r == SlaterApply(d, ac[n])
         IN  IF ~r.some
             THEN None
             ELSE LET rest == Path(r.d, ac, n - 1)
                  IN  IF rest.some
                      THEN Some(r.sign * rest.sign, rest.d)
                      ELSE None

Chain(d, term) == Path(d, term.ac, Len(term.ac))

\* the (term, source) combinations of a State::apply call
Combos(amps, terms) == (1..Len(terms)) \X (DOMAIN amps)

\* the determinants some combination reaches
Reached(amps, terms) ==
    {Chain(c[2], terms[c[1]]).d :
        c \in {cc \in Combos(amps, terms) : Chain(cc[2], terms[cc[1]]).some}}

\* weight x product of signs x source amplitude, summed over the
\* combinations that reach out
ExactSum(amps, terms, out) ==
    SumOver([c \in Combos(amps, terms) |->
                LET p == Chain(c[2], terms[c[1]])
                IN  IF p.some /\ p.d = out
                    THEN terms[c[1]].fac * p.sign * amps[c[2]]
                    ELSE 0],
            Combos(amps, terms))

\* one step of the term threading of the design: the pairs of the working
\* set W for which c is null vanish, the others land on their new
\* determinant, amplitudes landing on one determinant are summed, and what
\* is within tolerance is dropped
DropStep(W, c) ==
    LET ap == [s \in DOMAIN W |-> SlaterApply(s, c)]
        live == {s \in DOMAIN W : ap[s].some}
        landed == {ap[s].d : s \in live}
    IN  Prune([k \in landed |->
                 SumOver([s \in live |->
                             IF ap[s].d = k THEN W[s] * ap[s].sign ELSE 0],
                         live)])

RECURSIVE DropThread(_, _, _)
DropThread(W, ac, n) ==
    IF n = 0 THEN W ELSE DropThread(DropStep(W, ac[n]), ac, n - 1)

\* the working set a (term, source) combination ends with
Threaded(amps, terms, c) ==
    DropThread([k \in {c[2]} |-> amps[c[2]]], terms[c[1]].ac,
               Len(terms[c[1]].ac))

\* State x Operator -> State by per-branch-drop threading
DropApply(amps, terms) ==
    LET th == [c \in Combos(amps, terms) |-> Threaded(amps, terms, c)]
        keys == UNION {DOMAIN th[c] : c \in Combos(amps, terms)}
    IN  Prune([k \in keys |->
                 SumOver([c \in Combos(amps, terms) |->
                             terms[c[1]].fac * Entry(th[c], k)],
                         Combos(amps, terms))])

\* a then b on d
Both(d, a, b) ==
    LET r == SlaterApply(d, a)
    IN  IF ~r.some
        THEN None
        ELSE LET q == SlaterApply(r.d, b)
             IN  IF q.some THEN Some(r.sign * q.sign, q.d) ELSE None

AntiCommute(d, a, b) ==
    /\ Both(d, a, b).some <=> Both(d, b, a).some
    /\ Both(d, a, b).some =>
          /\ Both(d, a, b).d = Both(d, b, a).d
          /\ Both(d, a, b).sign = -Both(d, b, a).sign

FixtureState == StateNew(FixtureStates)

---------------------------------------------------------------------------
(* The claims. *)

\* C1: every Slater::apply call returned what the contract says: Create(j)
\* is null exactly when bit j is set, and otherwise sets only bit j, with
\* sign +1 iff the number of unoccupied bits below j is even; Annihilate(j)
\* is null exactly when bit j is clear, and otherwise clears only bit j, with
\* sign +1 iff the number of occupied bits below j is even (j = 0 included,
\* where nothing is below and the sign is +1).
C1_ApplyContract ==
    \A i \in 1..Len(hist) :
        LET d == hist[i].d
            j == hist[i].op.pos
            res == hist[i].res
        IN  IF hist[i].op.kind = "Create"
            THEN /\ ~res.some <=> j \in d
                 /\ res.some =>
                       /\ res.d = d \cup {j}
                       /\ res.sign =
                             Parity(Cardinality({k \in 0..(j - 1) : k \notin d}))
            ELSE /\ ~res.some <=> j \notin d
                 /\ res.some =>
                       /\ res.d = d \ {j}
                       /\ res.sign =
                             Parity(Cardinality({k \in 0..(j - 1) : k \in d}))

\* C1 witness: a Create at the top position succeeded with sign -1, after a
\* Create at position 0 succeeded with sign +1.
C1_Witness ==
    /\ Len(hist) = 2
    /\ hist[1].op = Create(0) /\ hist[1].res.some /\ hist[1].res.sign = 1
    /\ hist[2].op = Create(WordBits - 1)
    /\ hist[2].res.some /\ hist[2].res.sign = -1

\* C4 as stated: Create(j) on a determinant with j unoccupied followed by
\* Annihilate(j) on the result returns the original determinant, and the
\* product of the two signs is +1.
C4_CreateThenAnnihilate ==
    \A i \in 1..(Len(hist) - 1) :
        ( /\ hist[i].op.kind = "Create"
          /\ hist[i].op.pos \notin hist[i].d
          /\ hist[i + 1].op = Annihilate(hist[i].op.pos) )
        => /\ hist[i + 1].res.some
           /\ hist[i + 1].res.d = hist[i].d
           /\ hist[i].res.sign * hist[i + 1].res.sign = 1

\* C7 as stated: Slater::from_vec returns the construction error for every
\* list of in-range indices that holds a duplicate, and fails in no other way.
C7_DuplicateIsErr ==
    (made.call.fn = "from_vec" /\ HasDuplicate(made.call.arr))
        => made.ret.kind = "Err"

\* C8: for every duplicate-free list of in-range indices, in any order,
\* Slater::from_vec returns Ok with the determinant whose set bits are
\* exactly the listed indices; [0, 1, 2] gives raw index 7 and the empty list
\* raw index 0.
C8_FromVecBits ==
    (made.call.fn = "from_vec" /\ ~HasDuplicate(made.call.arr))
        => /\ made.ret.kind = "Ok"
           /\ made.ret.index = Range(made.call.arr)
           /\ \A k \in 1..Len(made.call.arr) :
                 BitAnd(made.ret.index, Shl1(made.call.arr[k])) # {}
           /\ made.call.arr = <<0, 1, 2>> => made.ret.index = Word(7)
           /\ made.call.arr = <<>> => made.ret.index = Word(0)

\* C8 witness: from_vec was called on an unsorted duplicate-free list that
\* holds the top position, and returned Ok.
C8_Witness ==
    /\ made.call.fn = "from_vec"
    /\ made.call.arr = <<WordBits - 1, 0, WordBits - 2>>
    /\ made.ret.kind = "Ok"

\* C2 as stated: the amplitude State::apply stores for an output determinant
\* is the exact sum of weight x product of signs x source amplitude over the
\* (term, source) combinations that reach it, and an output determinant is
\* absent only when that sum is within tolerance.
C2_ExactSum ==
    applied.called =>
        \A out \in DOMAIN applied.out \cup Reached(applied.in, applied.op) :
            IF out \in DOMAIN applied.out
            THEN applied.out[out] = ExactSum(applied.in, applied.op, out)
            ELSE Abs(ExactSum(applied.in, applied.op, out)) <= Eps

\* C3 as stated: for an Operator of one term (w, [op_1..op_n]) every source
\* determinant d of amplitude v contributes w x signs x v to the determinant
\* reached by applying op_n first and op_1 last, or nothing when a step is
\* null; and (1.0, [Create(0), Annihilate(1)]) applied to
\* {7: 0.33, 2: 0.33, 14: 0.33} gives exactly {1: 0.33, 13: 0.33}.
C3_RightToLeft ==
    (applied.called /\ Len(applied.op) = 1) =>
        /\ applied.out =
              Prune([k \in Reached(applied.in, applied.op) |->
                        SumOver([d \in DOMAIN applied.in |->
                                    LET p == Chain(d, applied.op[1])
                                    IN  IF p.some /\ p.d = k
                                        THEN applied.op[1].fac * p.sign
                                                 * applied.in[d]
                                        ELSE 0],
                                DOMAIN applied.in)])
        /\ (applied.in = FixtureState /\ applied.op = TestOperator) =>
              applied.out = [k \in {Word(1), Word(13)} |-> Amp033]

\* C5 as stated: the term (1.0, [Create(j), Annihilate(j)]) keeps every
\* source determinant with site j occupied at its original amplitude; for
\* j = 1 and {7: 0.33, 2: 0.33, 14: 0.33} the amplitudes on 7 and on 14
\* are 0.33.
C5_NumberOperator ==
    applied.called =>
        /\ \A j \in AllBits :
              applied.op = <<Term(1, <<Create(j), Annihilate(j)>>)>> =>
                  \A d \in DOMAIN applied.in :
                      j \in d => /\ d \in DOMAIN applied.out
                                 /\ applied.out[d] = applied.in[d]
        /\ (applied.in = FixtureState /\ applied.op = RunOperator) =>
              /\ Entry(applied.out, Word(7)) = Amp033
              /\ Entry(applied.out, Word(14)) = Amp033

\* C6 as stated: every State obtained by State::new or by State::apply calls
\* holds no entry whose |amplitude| is at or below the tolerance (that it
\* holds one entry per determinant is what being a function says).
C6_NoEntryWithinTolerance ==
    pc = "state" => \A d \in DOMAIN state : Abs(state[d]) > Eps

\* C9: the result of State::apply, which leaves a source's thread at the
\* first null result, is the result of the per-branch-drop threading, in
\* which only the failing pair vanishes.
C9_EarlyExitDropsNothing ==
    applied.called => applied.out = DropApply(applied.in, applied.op)

\* C9 witness: State::apply left the thread of one source at a null result
\* and carried another source of the same State through the same term.
C9_Witness ==
    /\ applied.called
    /\ Len(applied.op) = 1
    /\ \E d1, d2 \in DOMAIN applied.in :
          /\ ~Chain(d1, applied.op[1]).some
          /\ Chain(d2, applied.op[1]).some
          /\ Chain(d2, applied.op[1]).d \in DOMAIN applied.out

\* C10: two elementary operators on distinct positions anticommute on every
\* source determinant (both orders null, or the same determinant with
\* opposite sign products), and State::apply of a term with two adjacent
\* elementary operators on distinct positions swapped returns the negated
\* amplitudes.
C10_AntiCommutation ==
    (applied.called /\ Len(applied.op) = 1) =>
        LET term == applied.op[1]
        IN  \A i \in 1..(Len(term.ac) - 1) :
                term.ac[i].pos # term.ac[i + 1].pos =>
                    /\ \A d \in DOMAIN applied.in :
                          AntiCommute(d, term.ac[i], term.ac[i + 1])
                    /\ StateApply(applied.in,
                                  <<Term(term.fac, Swap(term.ac, i))>>)
                          = Negate(applied.out)

\* C10 witness: State::apply carried a source through a term of two
\* elementary operators on distinct positions.
C10_Witness ==
    /\ applied.called
    /\ Len(applied.op) = 1
    /\ Len(applied.op[1].ac) = 2
    /\ applied.op[1].ac[1].pos # applied.op[1].ac[2].pos
    /\ applied.out # EmptyMap

=============================================================================
